---- MODULE Spec2Model ----
(***************************************************************************)
(* Model of src/flask/app.py: a Flask webhook endpoint that verifies a     *)
(* signed delivery, unwraps the event, and for "deployment.validate"       *)
(* events retrieves the deployment, validates its config instances and     *)
(* submits the verdict to the platform, then reports the returned effect.  *)
(*                                                                         *)
(* Python's None is modelled as the empty set and a present value v as the *)
(* singleton {v}, so that "x is None" is x = None for values of any shape. *)
(* A printed line is a sequence of tokens: the literal pieces of the       *)
(* format string and the interpolated values.                              *)
(***************************************************************************)
EXTENDS Integers, Sequences, FiniteSets, TLC

\* ------------------------------------------------------------------ bounds

\* Requests the server may hold at once (one worker thread per delivery).
NumRequests == 2
\* Longest config_instances list the platform returns in the model.
MaxInstances == 2

\* Most dataclass instances and path segments under one DeploymentValidation
\* whose serialization is checked.
MaxNodes == 5

Requests == 1..NumRequests
\* The request of the specification that handles one delivery alone.
Alone == {1}

\* ---------------------------------------------------------------- optionals

None == {}
Some(v) == {v}
Get(o) == CHOOSE v \in o : TRUE

\* Sequences over S of length 0..n.
SeqUpTo(S, n) == UNION {[1..k -> S] : k \in 0..n}

\* ------------------------------------------------------- environment, secrets

EnvNames == {"MIRU_API_KEY", "MIRU_WEBHOOK_SECRET"}
ApiKey == "miru_api_key_live"
SigningSecret == "whsec_live"
OtherSecret == "whsec_other"

\* What a variable may hold in os.environ or in the .env file: absent, empty, set.
EnvValues(name) ==
  {None, Some(""), Some(IF name = "MIRU_API_KEY" THEN ApiKey ELSE SigningSecret)}
Environments == {e \in [EnvNames -> {None, Some(""), Some(ApiKey), Some(SigningSecret)}] :
                   \A n \in EnvNames : e[n] \in EnvValues(n)}

\* load_dotenv(): a variable of the .env file is set in os.environ unless
\* os.environ already has it (override is off by default).
load_dotenv(env, file) ==
  [n \in EnvNames |-> IF env[n] = None THEN file[n] ELSE env[n]]

ValueError(msg) == [type |-> "ValueError", message |-> msg]

\* get_env_var(name), on the environment load_dotenv left: the value, or
\* ValueError when the variable is absent or empty ("if not value").
get_env_var(env, name) ==
  IF env[name] = None \/ env[name] = Some("")
    THEN [ok |-> FALSE, exception |-> ValueError(name \o " is not set")]
    ELSE [ok |-> TRUE, value |-> Get(env[name])]

\* ------------------------------------------------------------ inbound requests

DeploymentIds == {"dpl_1", "dpl_2"}
EventTypes == {"deployment.validate", "config_instance.validate", "some.future.event"}

\* The structured document of a delivery: type and data.deployment.id, each
\* possibly absent.
Payloads ==
  {[type |-> Some(t), deployment_id |-> Some(d)] : t \in EventTypes, d \in DeploymentIds}
  \cup {[type |-> Some("deployment.validate"), deployment_id |-> None],
        [type |-> Some("some.future.event"), deployment_id |-> None],
        [type |-> None, deployment_id |-> Some("dpl_1")]}

\* A delivery: the body, what the sender signed and with which secret, the age
\* of the timestamp header, and whether the three signature headers are there.
WebhookRequests ==
  [body : Payloads, signed_body : Payloads, signed_with : {SigningSecret, OtherSecret},
   timestamp : {"fresh", "stale"}, has_headers : BOOLEAN]

WebhookVerificationError(msg) == [type |-> "WebhookVerificationError", message |-> msg]

\* Webhook(secret).verify(payload, headers): the parsed body, or a
\* WebhookVerificationError carrying the reason.
wh_verify(secret, req) ==
  IF ~req.has_headers
    THEN [ok |-> FALSE, exception |-> WebhookVerificationError("Missing required headers")]
  ELSE IF req.timestamp = "stale"
    THEN [ok |-> FALSE, exception |-> WebhookVerificationError("Message timestamp too old")]
  ELSE IF req.signed_with # secret \/ req.signed_body # req.body
    THEN [ok |-> FALSE, exception |-> WebhookVerificationError("No matching signature found")]
  ELSE [ok |-> TRUE, payload |-> req.body]

\* miru_client.webhooks.unwrap(payload): the typed event; fails when the type
\* discriminator is structurally absent.
unwrap(payload) ==
  IF payload.type = None
    THEN [ok |-> FALSE, exception |-> [type |-> "ParseError", message |-> "missing type"]]
    ELSE [ok |-> TRUE,
          event |-> [type |-> Get(payload.type), deployment_id |-> payload.deployment_id]]

\* json.dumps(payload, indent=2, ensure_ascii=False): the keys the document
\* has, quoted, one per line, nested objects indented by two more spaces and an
\* empty object as {}.
json_dumps(p) ==
  "{\n"
  \o (IF p.type = None THEN "" ELSE "  \"type\": \"" \o Get(p.type) \o "\",\n")
  \o "  \"data\": "
  \o (IF p.deployment_id = None
        THEN "{}"
        ELSE "{\n    \"deployment\": {\n      \"id\": \"" \o Get(p.deployment_id)
             \o "\"\n    }\n  }")
  \o "\n}"

\* Mutant of Dispatch: every "*.validate" event is handed to the handler.
DispatchAnyValidate(ev) ==
  IF ev.type \in {"deployment.validate", "config_instance.validate"}
    THEN "handle" ELSE "ignore"

\* The if/else of the endpoint on the event's type tag.
Dispatch(ev) == IF ev.type = "deployment.validate" THEN "handle" ELSE "ignore"

\* ------------------------------------------------------------- platform data

ConfigInstanceIds == {"cfg_inst_1", "cfg_inst_2", "cfg_inst_3"}

\* types.ConfigInstance as retrieved: id and the expanded content, if any.
ConfigInstances == [id : ConfigInstanceIds, content : {None, Some("content")}]

\* What deployments.retrieve(id, expand=[...]) may return.
Deployments(id) ==
  [id : {id},
   release : {None, Some([version |-> "v1.4.2"])},
   device : {None, Some([name |-> "robot-7"])},
   config_instances : {None} \cup {Some(s) : s \in SeqUpTo(ConfigInstances, MaxInstances)}]

\* How an outbound call fails: no connection, or a 5xx of the platform.
ApiErrors == {[type |-> "APIConnectionError", message |-> "Connection error."],
              [type |-> "InternalServerError", message |-> "Error code: 500"]}

RetrieveOutcomes(id) ==
  {[ok |-> FALSE, exception |-> e] : e \in ApiErrors}
  \cup {[ok |-> TRUE, value |-> d] : d \in Deployments(id)}

KnownEffects == {"none", "stage", "deploy", "reject", "void"}
Effects == KnownEffects \cup {"archive"}
EffectMessages == {"deployment validated", "deployment is not pending validation"}

\* What deployments.validate(id, **verdict) may return.
ValidateOutcomes ==
  {[ok |-> FALSE, exception |-> e] : e \in ApiErrors}
  \cup {[ok |-> TRUE, value |-> v] : v \in [effect : Effects, message : EffectMessages]}

RetrieveCall(id) ==
  [op |-> "deployments.retrieve", deployment_id |-> id,
   kwargs |-> [expand |-> <<"device", "release", "config_instances.content">>]]

ValidateCall(id, kwargs) ==
  [op |-> "deployments.validate", deployment_id |-> id, kwargs |-> kwargs]

\* ----------------------------------------------------------- validation verdict

ParameterValidation(message, path) ==
  [class |-> "ParameterValidation", message |-> message, path |-> path]

ConfigInstanceValidation(id, message, parameters) ==
  [class |-> "ConfigInstanceValidation", id |-> id, message |-> message,
   parameters |-> parameters]

DeploymentValidation(is_valid, message, config_instances) ==
  [class |-> "DeploymentValidation", is_valid |-> is_valid, message |-> message,
   config_instances |-> config_instances]

\* Mutant of to_dict: the outer comprehension starts at the second entry.
to_dict_skipping_first(self) ==
  [is_valid |-> self.is_valid,
   message |-> self.message,
   config_instances |->
     [i \in 1..(Len(self.config_instances) - 1) |->
        LET ci == self.config_instances[i + 1]
        IN [id |-> ci.id,
            message |-> ci.message,
            parameters |->
              [j \in 1..Len(ci.parameters) |->
                 LET p == ci.parameters[j]
                 IN [message |-> p.message, path |-> p.path]]]]]

\* Mutant of to_dict: the inner comprehension reads the parameters of the first
\* entry for every entry.
to_dict_first_parameters(self) ==
  [is_valid |-> self.is_valid,
   message |-> self.message,
   config_instances |->
     [i \in 1..Len(self.config_instances) |->
        LET ci == self.config_instances[i]
            first == self.config_instances[1]
        IN [id |-> ci.id,
            message |-> ci.message,
            parameters |->
              [j \in 1..Len(first.parameters) |->
                 LET p == first.parameters[j]
                 IN [message |-> p.message, path |-> p.path]]]]]

\* DeploymentValidation.to_dict(): the nested mapping, built by the two
\* comprehensions; a mapping carries no class.
to_dict(self) ==
  [is_valid |-> self.is_valid,
   message |-> self.message,
   config_instances |->
     [i \in 1..Len(self.config_instances) |->
        LET ci == self.config_instances[i]
        IN [id |-> ci.id,
            message |-> ci.message,
            parameters |->
              [j \in 1..Len(ci.parameters) |->
                 LET p == ci.parameters[j]
                 IN [message |-> p.message, path |-> p.path]]]]]

\* The verdict the loop body appends for one config instance.
validate_config_instance(config_instance) ==
  ConfigInstanceValidation(
    config_instance.id,
    "Error message shown on the config instance level in the UI",
    <<ParameterValidation("Error message shown on the parameter level in the UI",
                          <<"path", "to", "invalid", "parameter">>)>>)

\* Mutant of validate_loop: each verdict is inserted at the front of the list.
RECURSIVE validate_loop_prepend(_, _, _)
validate_loop_prepend(config_instances, i, cfg_inst_validations) ==
  IF i > Len(config_instances)
    THEN [ok |-> TRUE,
          value |-> DeploymentValidation(
                      TRUE,
                      "Error message shown on the deployment level in the UI",
                      cfg_inst_validations)]
  ELSE IF config_instances[i].content = None
    THEN [ok |-> FALSE, exception |-> ValueError("Config instance content is None")]
  ELSE validate_loop_prepend(config_instances, i + 1,
                             <<validate_config_instance(config_instances[i])>>
                               \o cfg_inst_validations)

\* Mutant of validate_loop: an instance without content is skipped (continue).
RECURSIVE validate_loop_skip_null(_, _, _)
validate_loop_skip_null(config_instances, i, cfg_inst_validations) ==
  IF i > Len(config_instances)
    THEN [ok |-> TRUE,
          value |-> DeploymentValidation(
                      TRUE,
                      "Error message shown on the deployment level in the UI",
                      cfg_inst_validations)]
  ELSE IF config_instances[i].content = None
    THEN validate_loop_skip_null(config_instances, i + 1, cfg_inst_validations)
  ELSE validate_loop_skip_null(config_instances, i + 1,
                               Append(cfg_inst_validations,
                                      validate_config_instance(config_instances[i])))

\* The for loop of validate_deployment from index i on, cfg_inst_validations
\* holding the verdicts appended so far, and the return after it.
RECURSIVE validate_loop(_, _, _)
validate_loop(config_instances, i, cfg_inst_validations) ==
  IF i > Len(config_instances)
    THEN [ok |-> TRUE,
          value |-> DeploymentValidation(
                      TRUE,
                      "Error message shown on the deployment level in the UI",
                      cfg_inst_validations)]
  ELSE IF config_instances[i].content = None
    THEN [ok |-> FALSE, exception |-> ValueError("Config instance content is None")]
  ELSE validate_loop(config_instances, i + 1,
                     Append(cfg_inst_validations,
                            validate_config_instance(config_instances[i])))

validate_deployment(config_instances) == validate_loop(config_instances, 1, <<>>)

\* The three "is None" checks after the retrieval, in the order of the code.
check_expanded(d) ==
  IF d.release = None
    THEN [ok |-> FALSE, exception |-> ValueError("Deployment release is None")]
  ELSE IF d.config_instances = None
    THEN [ok |-> FALSE, exception |-> ValueError("Deployment config instances are None")]
  ELSE IF d.device = None
    THEN [ok |-> FALSE, exception |-> ValueError("Deployment device is None")]
  ELSE [ok |-> TRUE]

\* effect_handlers[effect](msg): the narrative of an enumerated effect. None
\* of the five strings is an f-string: "{msg}" is printed as written.
effect_handlers(effect, msg) ==
  CASE effect = "none" -> "The validation had no effect on the deployment: {msg}"
    [] effect = "stage" ->
         "The deployment was successfully approved; since the deployment "
         \o "required approval to be staged, it is now staged!"
    [] effect = "deploy" ->
         "The deployment was successfully approved; since the deployment "
         \o "required approval to be deployed, it is now deploying!"
    [] effect = "reject" -> "The deployment was successfully rejected!"
    [] effect = "void" -> "The deployment was in an invalid state for validation: {msg}"

\* What print(*tokens) writes: the text and the default end.
println(tokens) == tokens \o <<"\n">>

\* The lines printed for the platform's answer: the handler's narrative when
\* effect_handlers.get finds one, the two generic lines otherwise.
effect_lines(resp) ==
  IF resp.effect \in KnownEffects
    THEN <<println(<<effect_handlers(resp.effect, resp.message)>>)>>
    ELSE <<println(<<"Validation effect: ", resp.effect>>),
           println(<<"Validation message: ", resp.message>>)>>

\* ------------------------------------------------------------------- responses

\* jsonify({...}), 400 of the except branch.
VerificationErrorResponse(e) ==
  [status |-> 400, body |-> [valid |-> FALSE, message |-> e.message, errors |-> <<>>]]

NoActionResponse == [status |-> 200, body |-> [message |-> "no action required"]]

SuccessResponse ==
  [status |-> 200, body |-> [message |-> "deployment validation handled successfully"]]

\* What Flask answers when the view function raises.
InternalServerError == [status |-> 500, body |-> [message |-> "Internal Server Error"]]

\* ----------------------------------------------------------------------- state

VARIABLES
  process,     \* "starting", "serving" or "crashed"
  environ,     \* os.environ
  dotenv,      \* the .env file
  pc,          \* per request: where its handler stands
  request,     \* per request: the delivery
  payload,     \* per request: the verified payload
  event,       \* per request: the unwrapped event
  deployment,  \* per request: the retrieved deployment
  result,      \* per request: what validate_deployment returned
  api_response,\* per request: what the verdict submission returned
  outbound,    \* per request: the outbound calls made, in order
  stdout,      \* per request: the lines printed, in order
  raised,      \* per request: the exception that left the view function
  response,    \* per request: the HTTP response
  steps,       \* per request: the steps completed, in order
  verdict,     \* a DeploymentValidation built by a caller of to_dict
  mapping      \* what to_dict returned for it

vars == <<process, environ, dotenv, pc, request, payload, event, deployment, result,
          api_response, outbound, stdout, raised, response, steps, verdict, mapping>>

appvars == <<process, environ, dotenv, pc, request, payload, event, deployment, result,
             api_response, outbound, stdout, raised, response, steps>>

tdvars == <<verdict, mapping>>

reqvars == <<pc, request, payload, event, deployment, result, api_response, outbound,
             stdout, raised, response, steps>>

Init ==
  /\ process = "starting"
  /\ environ \in Environments
  /\ dotenv \in Environments
  /\ pc = [r \in Requests |-> "idle"]
  /\ request = [r \in Requests |-> None]
  /\ payload = [r \in Requests |-> None]
  /\ event = [r \in Requests |-> None]
  /\ deployment = [r \in Requests |-> None]
  /\ result = [r \in Requests |-> None]
  /\ api_response = [r \in Requests |-> None]
  /\ outbound = [r \in Requests |-> <<>>]
  /\ stdout = [r \in Requests |-> <<>>]
  /\ raised = [r \in Requests |-> None]
  /\ response = [r \in Requests |-> None]
  /\ steps = [r \in Requests |-> <<>>]
  /\ verdict = None
  /\ mapping = None

\* Module load: miru_client = Miru(api_key=get_env_var("MIRU_API_KEY")).
\* The import fails, and the process never serves, when the key is missing.
Startup ==
  /\ UNCHANGED tdvars
  /\ process = "starting"
  /\ environ' = load_dotenv(environ, dotenv)
  /\ process' = IF get_env_var(environ', "MIRU_API_KEY").ok THEN "serving" ELSE "crashed"
  /\ UNCHANGED <<dotenv, reqvars>>

\* An exception leaves the view function: Flask answers 500.
Raise(r, exc) ==
  /\ raised' = [raised EXCEPT ![r] = Some(exc)]
  /\ response' = [response EXCEPT ![r] = Some(InternalServerError)]
  /\ pc' = [pc EXCEPT ![r] = "done"]

Return(r, resp) ==
  /\ response' = [response EXCEPT ![r] = Some(resp)]
  /\ pc' = [pc EXCEPT ![r] = "done"]
  /\ UNCHANGED raised

\* print(...) calls: each entry is what one call writes, its end included.
print_lines(r, lines) == stdout' = [stdout EXCEPT ![r] = @ \o lines]

Did(r, step) == steps' = [steps EXCEPT ![r] = Append(@, step)]

\* --------------------------------------------------------- webhook_endpoint

\* A POST arrives at /webhooks/miru: the view function starts, prints, and
\* reads the headers and the raw body.
Receive(r) ==
  /\ UNCHANGED tdvars
  /\ process = "serving"
  /\ pc[r] = "idle"
  /\ \E req \in WebhookRequests : request' = [request EXCEPT ![r] = Some(req)]
  /\ pc' = [pc EXCEPT ![r] = "verify"]
  /\ print_lines(r, <<println(<<"Received webhook">>)>>)
  /\ UNCHANGED <<process, environ, dotenv, payload, event, deployment, result,
                 api_response, outbound, raised, response, steps>>

\* Mutant of Verify: the except branch prints and falls through (no return).
VerifyFallsThrough(r) ==
  /\ UNCHANGED tdvars
  /\ pc[r] = "verify"
  /\ environ' = load_dotenv(environ, dotenv)
  /\ LET secret == get_env_var(environ', "MIRU_WEBHOOK_SECRET")
         v == wh_verify(secret.value, Get(request[r]))
     IN IF ~secret.ok
          THEN /\ Raise(r, secret.exception)
               /\ UNCHANGED <<payload, stdout, steps>>
        ELSE IF ~v.ok
          THEN /\ payload' = [payload EXCEPT ![r] = Some(Get(request[r]).body)]
               /\ print_lines(r, <<println(<<"Webhook verification error: ",
                                              v.exception.message>>),
                                    println(<<"\nWebhook payload:">>),
                                    <<json_dumps(Get(request[r]).body), "\n\n">> >>)
               /\ pc' = [pc EXCEPT ![r] = "unwrap"]
               /\ UNCHANGED <<raised, response, steps>>
        ELSE /\ payload' = [payload EXCEPT ![r] = Some(v.payload)]
             /\ print_lines(r, <<println(<<"\nWebhook payload:">>),
                                  <<json_dumps(v.payload), "\n\n">> >>)
             /\ pc' = [pc EXCEPT ![r] = "unwrap"]
             /\ Did(r, "verify")
             /\ UNCHANGED <<raised, response>>
  /\ UNCHANGED <<process, dotenv, request, event, deployment, result, api_response, outbound>>

\* The try block: the secret is read, then the signature is verified. Only a
\* WebhookVerificationError is caught; a ValueError of get_env_var is not.
Verify(r) ==
  /\ UNCHANGED tdvars
  /\ pc[r] = "verify"
  /\ environ' = load_dotenv(environ, dotenv)
  /\ LET secret == get_env_var(environ', "MIRU_WEBHOOK_SECRET")
         v == wh_verify(secret.value, Get(request[r]))
     IN IF ~secret.ok
          THEN /\ Raise(r, secret.exception)
               /\ UNCHANGED <<payload, stdout, steps>>
        ELSE IF ~v.ok
          THEN /\ Return(r, VerificationErrorResponse(v.exception))
               /\ print_lines(r, <<println(<<"Webhook verification error: ",
                                              v.exception.message>>)>>)
               /\ UNCHANGED <<payload, steps>>
        ELSE /\ payload' = [payload EXCEPT ![r] = Some(v.payload)]
             /\ print_lines(r, <<println(<<"\nWebhook payload:">>),
                                  <<json_dumps(v.payload), "\n\n">> >>)
             /\ pc' = [pc EXCEPT ![r] = "unwrap"]
             /\ Did(r, "verify")
             /\ UNCHANGED <<raised, response>>
  /\ UNCHANGED <<process, dotenv, request, event, deployment, result, api_response, outbound>>

\* Mutant of UnwrapDispatch: a delivery another request has already taken past
\* verification is acknowledged and not handled again (deduplication).
UnwrapDispatchDeduplicating(r) ==
  /\ UNCHANGED tdvars
  /\ pc[r] = "unwrap"
  /\ LET u == unwrap(Get(payload[r]))
         seen == \E o \in Requests \ {r} : request[o] = request[r] /\ event[o] # None
     IN IF ~u.ok
          THEN /\ Raise(r, u.exception)
               /\ UNCHANGED <<event, steps>>
        ELSE /\ event' = [event EXCEPT ![r] = Some(u.event)]
             /\ IF Dispatch(u.event) = "handle" /\ ~seen
                  THEN /\ pc' = [pc EXCEPT ![r] = "retrieve"]
                       /\ steps' = [steps EXCEPT ![r] = @ \o <<"unwrap", "dispatch">>]
                       /\ UNCHANGED <<raised, response>>
                  ELSE /\ Return(r, NoActionResponse)
                       /\ Did(r, "unwrap")
  /\ UNCHANGED <<process, environ, dotenv, request, payload, deployment, result,
                 api_response, outbound, stdout>>

\* unwrap, then the if/else on event.type: any other event is answered 200
\* "no action required".
UnwrapDispatch(r) ==
  /\ UNCHANGED tdvars
  /\ pc[r] = "unwrap"
  /\ LET u == unwrap(Get(payload[r]))
     IN IF ~u.ok
          THEN /\ Raise(r, u.exception)
               /\ UNCHANGED <<event, steps>>
        ELSE /\ event' = [event EXCEPT ![r] = Some(u.event)]
             /\ IF Dispatch(u.event) = "handle"
                  THEN /\ pc' = [pc EXCEPT ![r] = "retrieve"]
                       /\ steps' = [steps EXCEPT ![r] = @ \o <<"unwrap", "dispatch">>]
                       /\ UNCHANGED <<raised, response>>
                  ELSE /\ Return(r, NoActionResponse)
                       /\ Did(r, "unwrap")
  /\ UNCHANGED <<process, environ, dotenv, request, payload, deployment, result,
                 api_response, outbound, stdout>>

\* ------------------------------------------------- handle_validate_deployment

\* miru_client.deployments.retrieve(event.data.deployment.id, expand=[...]):
\* the request is sent, and the thread waits for the platform's answer.
Retrieve(r) ==
  /\ UNCHANGED tdvars
  /\ pc[r] = "retrieve"
  /\ LET id == Get(event[r]).deployment_id
     IN IF id = None
          THEN /\ Raise(r, [type |-> "AttributeError", message |-> "deployment"])
               /\ UNCHANGED outbound
          ELSE /\ outbound' = [outbound EXCEPT ![r] = Append(@, RetrieveCall(Get(id)))]
               /\ pc' = [pc EXCEPT ![r] = "retrieving"]
               /\ UNCHANGED <<raised, response>>
  /\ UNCHANGED <<process, environ, dotenv, request, payload, event, deployment, result,
                 api_response, stdout, steps>>

\* Mutant of RetrieveReturns: a failed retrieval is tried again.
RetrieveReturnsRetrying(r) ==
  /\ UNCHANGED tdvars
  /\ pc[r] = "retrieving"
  /\ \E o \in RetrieveOutcomes(outbound[r][Len(outbound[r])].deployment_id) :
       IF o.ok
         THEN /\ deployment' = [deployment EXCEPT ![r] = Some(o.value)]
              /\ pc' = [pc EXCEPT ![r] = "check"]
              /\ Did(r, "retrieve")
              /\ UNCHANGED <<raised, response>>
         ELSE /\ pc' = [pc EXCEPT ![r] = "retrieve"]
              /\ UNCHANGED <<deployment, steps, raised, response>>
  /\ UNCHANGED <<process, environ, dotenv, request, payload, event, result,
                 api_response, outbound, stdout>>

\* The platform answers the retrieval: the deployment is returned, or the SDK
\* raises.
RetrieveReturns(r) ==
  /\ UNCHANGED tdvars
  /\ pc[r] = "retrieving"
  /\ \E o \in RetrieveOutcomes(outbound[r][Len(outbound[r])].deployment_id) :
       IF o.ok
         THEN /\ deployment' = [deployment EXCEPT ![r] = Some(o.value)]
              /\ pc' = [pc EXCEPT ![r] = "check"]
              /\ Did(r, "retrieve")
              /\ UNCHANGED <<raised, response>>
         ELSE /\ Raise(r, o.exception)
              /\ UNCHANGED <<deployment, steps>>
  /\ UNCHANGED <<process, environ, dotenv, request, payload, event, result,
                 api_response, outbound, stdout>>

\* Mutant of CheckExpanded: a missing field makes the handler return, not raise.
CheckExpandedReturns(r) ==
  /\ UNCHANGED tdvars
  /\ pc[r] = "check"
  /\ LET d == Get(deployment[r])
         c == check_expanded(d)
     IN IF ~c.ok
          THEN /\ pc' = [pc EXCEPT ![r] = "respond"]
               /\ UNCHANGED <<stdout, steps, raised, response>>
          ELSE /\ print_lines(r, <<println(<<"Validating deployment to device ",
                                              Get(d.device).name, " for release ",
                                              Get(d.release).version, "...\n">>)>>)
               /\ pc' = [pc EXCEPT ![r] = "validate"]
               /\ Did(r, "check")
               /\ UNCHANGED <<raised, response>>
  /\ UNCHANGED <<process, environ, dotenv, request, payload, event, deployment, result,
                 api_response, outbound>>

\* The checks of release, config_instances and device, and the print.
CheckExpanded(r) ==
  /\ UNCHANGED tdvars
  /\ pc[r] = "check"
  /\ LET d == Get(deployment[r])
         c == check_expanded(d)
     IN IF ~c.ok
          THEN /\ Raise(r, c.exception)
               /\ UNCHANGED <<stdout, steps>>
          ELSE /\ print_lines(r, <<println(<<"Validating deployment to device ",
                                              Get(d.device).name, " for release ",
                                              Get(d.release).version, "...\n">>)>>)
               /\ pc' = [pc EXCEPT ![r] = "validate"]
               /\ Did(r, "check")
               /\ UNCHANGED <<raised, response>>
  /\ UNCHANGED <<process, environ, dotenv, request, payload, event, deployment, result,
                 api_response, outbound>>

\* Mutant of Validate: cfg_inst_validations is one list shared by all calls (a
\* mutable default argument), so it still holds the verdicts of an earlier call.
ValidateSharedList(r) ==
  /\ UNCHANGED tdvars
  /\ pc[r] = "validate"
  /\ LET earlier == {o \in Requests \ {r} : result[o] # None}
         shared == IF earlier = {} THEN <<>>
                   ELSE Get(result[CHOOSE o \in earlier : TRUE]).config_instances
         v == validate_loop(Get(Get(deployment[r]).config_instances), 1, shared)
     IN IF ~v.ok
          THEN /\ Raise(r, v.exception)
               /\ UNCHANGED <<result, steps>>
          ELSE /\ result' = [result EXCEPT ![r] = Some(v.value)]
               /\ pc' = [pc EXCEPT ![r] = "submit"]
               /\ Did(r, "validate")
               /\ UNCHANGED <<raised, response>>
  /\ UNCHANGED <<process, environ, dotenv, request, payload, event, deployment,
                 api_response, outbound, stdout>>

\* result = validate_deployment(config_instances)
Validate(r) ==
  /\ UNCHANGED tdvars
  /\ pc[r] = "validate"
  /\ LET v == validate_deployment(Get(Get(deployment[r]).config_instances))
     IN IF ~v.ok
          THEN /\ Raise(r, v.exception)
               /\ UNCHANGED <<result, steps>>
          ELSE /\ result' = [result EXCEPT ![r] = Some(v.value)]
               /\ pc' = [pc EXCEPT ![r] = "submit"]
               /\ Did(r, "validate")
               /\ UNCHANGED <<raised, response>>
  /\ UNCHANGED <<process, environ, dotenv, request, payload, event, deployment,
                 api_response, outbound, stdout>>

\* Mutant of Submit: a default verdict is submitted, not the result.
SubmitDefaultVerdict(r) ==
  /\ UNCHANGED tdvars
  /\ pc[r] = "submit"
  /\ outbound' = [outbound EXCEPT ![r] =
                    Append(@, ValidateCall(Get(deployment[r]).id,
                                           to_dict(DeploymentValidation(TRUE, "", <<>>))))]
  /\ pc' = [pc EXCEPT ![r] = "submitting"]
  /\ UNCHANGED <<process, environ, dotenv, request, payload, event, deployment, result,
                 api_response, stdout, raised, response, steps>>

\* response = miru_client.deployments.validate(deployment.id, **result.to_dict()):
\* the request is sent, and the thread waits for the platform's answer.
Submit(r) ==
  /\ UNCHANGED tdvars
  /\ pc[r] = "submit"
  /\ outbound' = [outbound EXCEPT ![r] =
                    Append(@, ValidateCall(Get(deployment[r]).id, to_dict(Get(result[r]))))]
  /\ pc' = [pc EXCEPT ![r] = "submitting"]
  /\ UNCHANGED <<process, environ, dotenv, request, payload, event, deployment, result,
                 api_response, stdout, raised, response, steps>>

\* Mutant of SubmitReturns: a failed submission is caught and the handler returns.
SubmitReturnsIgnoringFailure(r) ==
  /\ UNCHANGED tdvars
  /\ pc[r] = "submitting"
  /\ \E o \in ValidateOutcomes :
       IF o.ok
         THEN /\ api_response' = [api_response EXCEPT ![r] = Some(o.value)]
              /\ pc' = [pc EXCEPT ![r] = "effect"]
              /\ Did(r, "submit")
              /\ UNCHANGED <<raised, response>>
         ELSE /\ pc' = [pc EXCEPT ![r] = "respond"]
              /\ UNCHANGED <<api_response, steps, raised, response>>
  /\ UNCHANGED <<process, environ, dotenv, request, payload, event, deployment, result,
                 outbound, stdout>>

\* The platform answers the submission: effect and message are returned, or the
\* SDK raises.
SubmitReturns(r) ==
  /\ UNCHANGED tdvars
  /\ pc[r] = "submitting"
  /\ \E o \in ValidateOutcomes :
       IF o.ok
         THEN /\ api_response' = [api_response EXCEPT ![r] = Some(o.value)]
              /\ pc' = [pc EXCEPT ![r] = "effect"]
              /\ Did(r, "submit")
              /\ UNCHANGED <<raised, response>>
         ELSE /\ Raise(r, o.exception)
              /\ UNCHANGED <<api_response, steps>>
  /\ UNCHANGED <<process, environ, dotenv, request, payload, event, deployment, result,
                 outbound, stdout>>

\* Mutant of InterpretEffect: effect_handlers[effect] instead of .get(effect),
\* so an effect outside the table raises KeyError.
InterpretEffectIndexing(r) ==
  /\ UNCHANGED tdvars
  /\ pc[r] = "effect"
  /\ IF Get(api_response[r]).effect \in KnownEffects
       THEN /\ print_lines(r, effect_lines(Get(api_response[r])))
            /\ pc' = [pc EXCEPT ![r] = "respond"]
            /\ Did(r, "effect")
            /\ UNCHANGED <<raised, response>>
       ELSE /\ Raise(r, [type |-> "KeyError", message |-> Get(api_response[r]).effect])
            /\ UNCHANGED <<stdout, steps>>
  /\ UNCHANGED <<process, environ, dotenv, request, payload, event, deployment, result,
                 api_response, outbound>>

\* The lookup in effect_handlers and the prints; the handler then returns.
InterpretEffect(r) ==
  /\ UNCHANGED tdvars
  /\ pc[r] = "effect"
  /\ print_lines(r, effect_lines(Get(api_response[r])))
  /\ pc' = [pc EXCEPT ![r] = "respond"]
  /\ Did(r, "effect")
  /\ UNCHANGED <<process, environ, dotenv, request, payload, event, deployment, result,
                 api_response, outbound, raised, response>>

\* Back in the endpoint: the success response.
Respond(r) ==
  /\ UNCHANGED tdvars
  /\ pc[r] = "respond"
  /\ Return(r, SuccessResponse)
  /\ Did(r, "respond")
  /\ UNCHANGED <<process, environ, dotenv, request, payload, event, deployment, result,
                 api_response, outbound, stdout>>

\* ------------------------------------------------------------- specifications

Handle(r) ==
  \/ Receive(r)
  \/ Verify(r)
  \/ UnwrapDispatch(r)
  \/ Retrieve(r)
  \/ RetrieveReturns(r)
  \/ CheckExpanded(r)
  \/ Validate(r)
  \/ Submit(r)
  \/ SubmitReturns(r)
  \/ InterpretEffect(r)
  \/ Respond(r)

\* One delivery, handled alone.
Next == Startup \/ \E r \in Alone : Handle(r)

Spec == Init /\ [][Next]_vars

\* ------------------------------------------------- to_dict on any verdict

\* The server before it starts, with both credentials in os.environ.
AppIdle ==
  /\ process = "starting"
  /\ environ = [n \in EnvNames |-> Some(IF n = "MIRU_API_KEY" THEN ApiKey ELSE SigningSecret)]
  /\ dotenv = [n \in EnvNames |-> None]
  /\ pc = [r \in Requests |-> "idle"]
  /\ request = [r \in Requests |-> None]
  /\ payload = [r \in Requests |-> None]
  /\ event = [r \in Requests |-> None]
  /\ deployment = [r \in Requests |-> None]
  /\ result = [r \in Requests |-> None]
  /\ api_response = [r \in Requests |-> None]
  /\ outbound = [r \in Requests |-> <<>>]
  /\ stdout = [r \in Requests |-> <<>>]
  /\ raised = [r \in Requests |-> None]
  /\ response = [r \in Requests |-> None]
  /\ steps = [r \in Requests |-> <<>>]

VerdictIds == {"cfg_inst_1", "cfg_inst_2"}
VerdictMessages == {"ok", "value out of range"}
PathSegments == {"motion", "0"}

\* The ParameterValidation instances of ps and the segments of their paths.
RECURSIVE ParameterNodes(_)
ParameterNodes(ps) ==
  IF ps = <<>> THEN 0 ELSE 1 + Len(Head(ps).path) + ParameterNodes(Tail(ps))

\* The ConfigInstanceValidation instances of cis and what is under them.
RECURSIVE EntryNodes(_)
EntryNodes(cis) ==
  IF cis = <<>> THEN 0 ELSE 1 + ParameterNodes(Head(cis).parameters) + EntryNodes(Tail(cis))

\* The dataclass instances and path segments under verdict v.
Nodes(v) == EntryNodes(v.config_instances)

\* DeploymentValidation(is_valid=..., message=..., config_instances=[])
InitToDict ==
  /\ AppIdle
  /\ verdict \in {Some(DeploymentValidation(b, m, <<>>)) : b \in BOOLEAN, m \in VerdictMessages}
  /\ mapping = None

\* config_instances.append(ConfigInstanceValidation(id=..., message=..., parameters=[]))
AddConfigInstanceValidation ==
  /\ mapping = None
  /\ Nodes(Get(verdict)) < MaxNodes
  /\ \E id \in VerdictIds, m \in VerdictMessages :
       verdict' = Some([Get(verdict) EXCEPT !.config_instances =
                          Append(@, ConfigInstanceValidation(id, m, <<>>))])
  /\ UNCHANGED <<appvars, mapping>>

\* parameters.append(ParameterValidation(message=..., path=[])) on the last entry
AddParameterValidation ==
  /\ mapping = None
  /\ Nodes(Get(verdict)) < MaxNodes
  /\ Get(verdict).config_instances # <<>>
  /\ LET n == Len(Get(verdict).config_instances)
     IN \E m \in VerdictMessages :
          verdict' = Some([Get(verdict) EXCEPT !.config_instances[n].parameters =
                             Append(@, ParameterValidation(m, <<>>))])
  /\ UNCHANGED <<appvars, mapping>>

\* path.append(segment) on the last parameter of the last entry
AddPathSegment ==
  /\ mapping = None
  /\ Nodes(Get(verdict)) < MaxNodes
  /\ Get(verdict).config_instances # <<>>
  /\ LET n == Len(Get(verdict).config_instances)
         k == Len(Get(verdict).config_instances[n].parameters)
     IN /\ k > 0
        /\ \E seg \in PathSegments :
             verdict' = Some([Get(verdict) EXCEPT
                                !.config_instances[n].parameters[k].path = Append(@, seg)])
  /\ UNCHANGED <<appvars, mapping>>

\* verdict.to_dict()
ToDict ==
  /\ mapping = None
  /\ mapping' = Some(to_dict(Get(verdict)))
  /\ UNCHANGED <<appvars, verdict>>

NextToDict ==
  \/ AddConfigInstanceValidation
  \/ AddParameterValidation
  \/ AddPathSegment
  \/ ToDict

SpecToDict == InitToDict /\ [][NextToDict]_vars

\* ------------------------------------------------------ concurrent deliveries

\* A delivery signed by the platform with the shared secret, untouched.
Signed(body) ==
  [body |-> body, signed_body |-> body, signed_with |-> SigningSecret,
   timestamp |-> "fresh", has_headers |-> TRUE]

ValidateEvent == [type |-> Some("deployment.validate"), deployment_id |-> Some("dpl_1")]
FutureEvent == [type |-> Some("some.future.event"), deployment_id |-> Some("dpl_1")]

\* The deliveries of the concurrent specification: a validation request, an
\* event of another type, and the validation request with a changed body.
ConcurrentRequests ==
  {Signed(ValidateEvent), Signed(FutureEvent),
   [Signed(ValidateEvent) EXCEPT !.signed_body = FutureEvent]}

\* What the platform returns for dpl_1 there: a complete deployment of two
\* instances, one whose second instance has no content, one without device.
ConcurrentDeployments ==
  {[id |-> "dpl_1", release |-> Some([version |-> "v1.4.2"]),
    device |-> Some([name |-> "robot-7"]),
    config_instances |-> Some(<<[id |-> "cfg_inst_3", content |-> Some("content")],
                                [id |-> "cfg_inst_1", content |-> Some("content")]>>)],
   [id |-> "dpl_1", release |-> Some([version |-> "v1.4.2"]),
    device |-> Some([name |-> "robot-7"]),
    config_instances |-> Some(<<[id |-> "cfg_inst_1", content |-> Some("content")],
                                [id |-> "cfg_inst_2", content |-> None]>>)],
   [id |-> "dpl_1", release |-> Some([version |-> "v1.4.2"]),
    device |-> None,
    config_instances |-> Some(<<[id |-> "cfg_inst_1", content |-> Some("content")]>>)]}

ConcurrentAnswers ==
  {[effect |-> "stage", message |-> "deployment validated"],
   [effect |-> "archive", message |-> "deployment validated"]}

ConcurrentErrors == {[type |-> "APIConnectionError", message |-> "Connection error."]}

\* The inputs of every request are among those above.
InSmallWorld ==
  \A r \in Requests :
    /\ request[r] \subseteq ConcurrentRequests
    /\ deployment[r] \subseteq ConcurrentDeployments
    /\ api_response[r] \subseteq ConcurrentAnswers
    /\ \A e \in raised[r] : e \in ApiErrors => e \in ConcurrentErrors

\* The server before it starts, both credentials in os.environ or both in the
\* .env file.
InitConcurrent ==
  /\ Init
  /\ \A n \in EnvNames : get_env_var(load_dotenv(environ, dotenv), n).ok
  /\ \E here \in {environ, dotenv} : \A n \in EnvNames : here[n] = None

\* One worker thread per delivery: the steps of the requests interleave freely.
NextConcurrent ==
  \/ Startup
  \/ \E r \in Requests :
       \/ Receive(r) /\ InSmallWorld'
       \/ Verify(r)
       \/ UnwrapDispatch(r)
       \/ Retrieve(r)
       \/ RetrieveReturns(r) /\ InSmallWorld'
       \/ CheckExpanded(r)
       \/ Validate(r)
       \/ Submit(r)
       \/ SubmitReturns(r) /\ InSmallWorld'
       \/ InterpretEffect(r)
       \/ Respond(r)

SpecConcurrent == InitConcurrent /\ [][NextConcurrent]_vars

\* --------------------------------------------------------------------- claims

\* The outbound calls of request r to one operation of the platform API.
CallsTo(r, op) == SelectSeq(outbound[r], LAMBDA c : c.op = op)

\* The secret a request would read now (os.environ no longer changes once the
\* process serves: load_dotenv has merged the .env file at module load).
SecretNow == get_env_var(load_dotenv(environ, dotenv), "MIRU_WEBHOOK_SECRET")

\* Request r was delivered, the secret is there, and its signature does not verify.
FailsVerification(r) ==
  /\ request[r] # None
  /\ SecretNow.ok
  /\ ~wh_verify(SecretNow.value, Get(request[r])).ok

\* C1: a delivery whose signature verification fails with a verification error
\* ends with 400 {valid: false, message: <reason>, errors: []}; nothing of the
\* handler runs (no unwrap, no dispatch, no event) and no outbound call is made.
C1_VerificationErrorIs400 ==
  \A r \in Requests :
    FailsVerification(r) =>
      /\ pc[r] \in {"verify", "done"}
      /\ steps[r] = <<>>
      /\ payload[r] = None /\ event[r] = None /\ deployment[r] = None /\ result[r] = None
      /\ outbound[r] = <<>>
      /\ pc[r] = "done" =>
           /\ raised[r] = None
           /\ response[r] =
                Some([status |-> 400,
                      body |-> [valid |-> FALSE,
                                message |-> wh_verify(SecretNow.value,
                                                      Get(request[r])).exception.message,
                                errors |-> <<>>]])

\* C1 witness: a delivery whose body was changed after signing has been answered.
C1_Witness ==
  \E r \in Requests :
    /\ pc[r] = "done" /\ FailsVerification(r)
    /\ Get(request[r]).has_headers /\ Get(request[r]).timestamp = "fresh"
    /\ Get(request[r]).signed_with = SigningSecret
    /\ Get(request[r]).signed_body # Get(request[r]).body
    /\ Get(response[r]).status = 400

\* Request r holds a verified, unwrapped event whose tag is not "deployment.validate".
OtherEvent(r) == event[r] # None /\ Get(event[r]).type # "deployment.validate"

\* C2: a verified event of any other type, known or not, is answered 200 "no
\* action required", raises nothing and makes no outbound call.
C2_OtherEventsNoAction ==
  \A r \in Requests :
    OtherEvent(r) =>
      /\ pc[r] = "done"
      /\ raised[r] = None
      /\ response[r] = Some([status |-> 200, body |-> [message |-> "no action required"]])
      /\ outbound[r] = <<>>
      /\ deployment[r] = None /\ result[r] = None

\* C2 witness: an event with a tag the system does not know has been answered.
C2_Witness ==
  \E r \in Requests :
    /\ OtherEvent(r) /\ Get(event[r]).type = "some.future.event"
    /\ pc[r] = "done" /\ Get(response[r]).status = 200

\* Request r retrieved a deployment with release, device and config instances,
\* every instance with content.
CompleteDeployment(r) ==
  /\ deployment[r] # None
  /\ Get(deployment[r]).release # None
  /\ Get(deployment[r]).device # None
  /\ Get(deployment[r]).config_instances # None
  /\ \A i \in DOMAIN Get(Get(deployment[r]).config_instances) :
       Get(Get(deployment[r]).config_instances)[i].content # None

RetrievedInstances(r) == Get(Get(deployment[r]).config_instances)

\* C3: a "deployment.validate" request that retrieved a complete deployment of N
\* config instances and whose verdict submission did not fail ends with 200
\* "deployment validation handled successfully", after exactly one verdict
\* submission, whose config_instances has length N.
C3_CompleteDeploymentSucceeds ==
  \A r \in Requests :
    (pc[r] = "done" /\ CompleteDeployment(r) /\ raised[r] \notin {Some(e) : e \in ApiErrors}) =>
      /\ raised[r] = None
      /\ response[r] = Some([status |-> 200,
                             body |-> [message |-> "deployment validation handled successfully"]])
      /\ Len(CallsTo(r, "deployments.validate")) = 1
      /\ Len(CallsTo(r, "deployments.validate")[1].kwargs.config_instances)
           = Len(RetrievedInstances(r))
      /\ outbound[r][Len(outbound[r])].op = "deployments.validate"

\* C3 witness: the scenario of the specification, two config instances with content.
C3_Witness ==
  \E r \in Requests :
    /\ pc[r] = "done" /\ CompleteDeployment(r) /\ Len(RetrievedInstances(r)) = 2
    /\ response[r] = Some(SuccessResponse)
    /\ Len(CallsTo(r, "deployments.validate")[1].kwargs.config_instances) = 2

\* C4 (as claimed): no verdict returned by validate_deployment is valid while
\* one of its config-instance verdicts carries failing parameters.
C4_ValidOnlyWithoutFailingParameters ==
  \A r \in Requests :
    result[r] # None =>
      ~(/\ Get(result[r]).is_valid
        /\ \E i \in DOMAIN Get(result[r]).config_instances :
             Get(result[r]).config_instances[i].parameters # <<>>)

\* Request r ran validate_deployment to its return.
Validated(r) == \E i \in DOMAIN steps[r] : steps[r][i] = "validate"

\* C5: validate_deployment on N config instances with content returns a verdict
\* with N entries, the i-th carrying the id of the i-th instance; it does not
\* raise on such an input.
C5_VerdictPreservesOrder ==
  \A r \in Requests :
    /\ Validated(r) =>
         /\ result[r] # None
         /\ Get(result[r]).class = "DeploymentValidation"
         /\ Len(Get(result[r]).config_instances) = Len(RetrievedInstances(r))
         /\ \A i \in DOMAIN RetrievedInstances(r) :
              Get(result[r]).config_instances[i].id = RetrievedInstances(r)[i].id
    /\ (CompleteDeployment(r) /\ pc[r] \notin {"check", "validate"}) => Validated(r)

\* C5 witness: two instances whose ids are not in sorted order were validated.
C5_Witness ==
  \E r \in Requests :
    /\ Validated(r) /\ Len(RetrievedInstances(r)) = 2
    /\ RetrievedInstances(r)[1].id = "cfg_inst_3"
    /\ RetrievedInstances(r)[2].id = "cfg_inst_1"
    /\ Get(result[r]).config_instances[1].id = "cfg_inst_3"

\* Request r passed the checks of release, config_instances and device.
Checked(r) == \E i \in DOMAIN steps[r] : steps[r][i] = "check"

HasNullContent(r) ==
  \E i \in DOMAIN RetrievedInstances(r) : RetrievedInstances(r)[i].content = None

\* C6: when an instance at any position has no content, validate_deployment
\* raises ValueError and returns no verdict, and the request makes no verdict
\* submission.
C6_NullContentRaises ==
  \A r \in Requests :
    (Checked(r) /\ HasNullContent(r)) =>
      /\ pc[r] \in {"validate", "done"}
      /\ result[r] = None
      /\ ~Validated(r)
      /\ CallsTo(r, "deployments.validate") = <<>>
      /\ pc[r] = "done" =>
           /\ raised[r] = Some(ValueError("Config instance content is None"))
           /\ Get(response[r]).status = 500

\* C6 witness: the instance without content is the second one, after one with
\* content, and the request has ended.
C6_Witness ==
  \E r \in Requests :
    /\ Checked(r) /\ pc[r] = "done"
    /\ Len(RetrievedInstances(r)) = 2
    /\ RetrievedInstances(r)[1].content # None
    /\ RetrievedInstances(r)[2].content = None
    /\ raised[r] # None

\* The retrieved deployment of r lacks its release, device or config_instances.
Incomplete(r) ==
  /\ deployment[r] # None
  /\ \/ Get(deployment[r]).release = None
     \/ Get(deployment[r]).device = None
     \/ Get(deployment[r]).config_instances = None

PreconditionErrors ==
  {ValueError("Deployment release is None"),
   ValueError("Deployment config instances are None"),
   ValueError("Deployment device is None")}

\* C7: a deployment retrieved without release, device or config_instances makes
\* the handler raise: validate_deployment is not run, no verdict is submitted,
\* and the request does not answer success.
C7_MissingExpansionIsFatal ==
  \A r \in Requests :
    Incomplete(r) =>
      /\ pc[r] \in {"check", "done"}
      /\ ~Checked(r) /\ ~Validated(r) /\ result[r] = None
      /\ CallsTo(r, "deployments.validate") = <<>>
      /\ response[r] # Some(SuccessResponse)
      /\ pc[r] = "done" =>
           /\ raised[r] \in {Some(e) : e \in PreconditionErrors}
           /\ Get(response[r]).status = 500

\* C7 witness: only the device is missing, and the request has ended.
C7_Witness ==
  \E r \in Requests :
    /\ Incomplete(r) /\ pc[r] = "done"
    /\ Get(deployment[r]).release # None
    /\ Get(deployment[r]).config_instances # None
    /\ Get(deployment[r]).device = None
    /\ Get(response[r]).status = 500

\* C8: a failed outbound call fails the request: the success response is given
\* only after a verdict submission that completed, an API error answers 500,
\* and a failed retrieval is not followed by a verdict submission. A call that
\* has no answer yet leaves the request waiting, with nothing raised or answered.
C8_OutboundFailurePropagates ==
  \A r \in Requests :
    /\ response[r] = Some(SuccessResponse) =>
         /\ api_response[r] # None
         /\ raised[r] = None
         /\ Len(CallsTo(r, "deployments.validate")) = 1
    /\ raised[r] \in {Some(e) : e \in ApiErrors} =>
         /\ pc[r] = "done" /\ Get(response[r]).status = 500
         /\ api_response[r] = None
    /\ (CallsTo(r, "deployments.retrieve") # <<>> /\ deployment[r] = None) =>
         /\ CallsTo(r, "deployments.validate") = <<>>
         /\ \/ pc[r] = "retrieving" /\ raised[r] = None /\ response[r] = None
            \/ pc[r] = "done" /\ raised[r] \in {Some(e) : e \in ApiErrors}
    /\ (CallsTo(r, "deployments.validate") # <<>> /\ api_response[r] = None) =>
         \/ pc[r] = "submitting" /\ raised[r] = None /\ response[r] = None
         \/ pc[r] = "done" /\ raised[r] \in {Some(e) : e \in ApiErrors}

\* C8 witness: the verdict submission failed and the request has ended.
C8_Witness ==
  \E r \in Requests :
    /\ pc[r] = "done" /\ raised[r] \in {Some(e) : e \in ApiErrors}
    /\ CallsTo(r, "deployments.validate") # <<>>
    /\ Get(response[r]).status = 500

\* C9: a request makes at most one deployment retrieval and at most one verdict
\* submission, also when one of them fails.
C9_NoLocalRetry ==
  \A r \in Requests :
    /\ Len(CallsTo(r, "deployments.retrieve")) <= 1
    /\ Len(CallsTo(r, "deployments.validate")) <= 1
    /\ Len(outbound[r]) <= 2

\* C9 witness: the retrieval failed, and the request ended after that one call.
C9_Witness ==
  \E r \in Requests :
    /\ pc[r] = "done" /\ raised[r] \in {Some(e) : e \in ApiErrors}
    /\ Len(CallsTo(r, "deployments.retrieve")) = 1
    /\ deployment[r] = None

\* The lines request r printed after "Validating deployment ...".
EffectOutput(r) == SubSeq(stdout[r], 5, Len(stdout[r]))

\* C10: after the submission, an effect of {none, stage, deploy, reject, void}
\* prints exactly one line, the narrative of that effect and of no other; any
\* other effect prints the generic lines carrying the effect and the message;
\* either way nothing is raised and the request answers success.
C10_EffectClassified ==
  \A r \in Requests :
    (api_response[r] # None /\ pc[r] \in {"respond", "done"}) =>
      LET resp == Get(api_response[r])
      IN /\ raised[r] = None
         /\ pc[r] = "done" => response[r] = Some(SuccessResponse)
         /\ resp.effect \in {"none", "stage", "deploy", "reject", "void"} =>
              /\ EffectOutput(r) = << <<effect_handlers(resp.effect, resp.message), "\n">> >>
              /\ \A other \in {"none", "stage", "deploy", "reject", "void"} \ {resp.effect} :
                   EffectOutput(r) # << <<effect_handlers(other, resp.message), "\n">> >>
         /\ resp.effect \notin {"none", "stage", "deploy", "reject", "void"} =>
              EffectOutput(r) = << <<"Validation effect: ", resp.effect, "\n">>,
                                   <<"Validation message: ", resp.message, "\n">> >>

\* C10 witness: the platform answered with an effect outside the five, and the
\* request has answered success.
C10_Witness ==
  \E r \in Requests :
    /\ pc[r] = "done" /\ api_response[r] # None
    /\ Get(api_response[r]).effect = "archive"
    /\ response[r] = Some(SuccessResponse)

\* C11: to_dict round-trips. The mapping it returns has exactly the keys
\* is_valid, message and config_instances; its entries are, in order, those of
\* the verdict, each with exactly id, message and parameters; and their
\* parameters are, in order, those of the entry, each with exactly message and
\* path, all with the values of the verdict.
C11_ToDictRoundTrips ==
  mapping # None =>
    LET v == Get(verdict)
        m == Get(mapping)
    IN /\ DOMAIN m = {"is_valid", "message", "config_instances"}
       /\ m.is_valid = v.is_valid
       /\ m.message = v.message
       /\ Len(m.config_instances) = Len(v.config_instances)
       /\ \A i \in 1..Len(v.config_instances) :
            LET ci == v.config_instances[i]
                d == m.config_instances[i]
            IN /\ DOMAIN d = {"id", "message", "parameters"}
               /\ d.id = ci.id
               /\ d.message = ci.message
               /\ Len(d.parameters) = Len(ci.parameters)
               /\ \A j \in 1..Len(ci.parameters) :
                    /\ DOMAIN d.parameters[j] = {"message", "path"}
                    /\ d.parameters[j].message = ci.parameters[j].message
                    /\ d.parameters[j].path = ci.parameters[j].path

\* C11 witness: a serialized verdict of two entries with different ids, the
\* first without parameters, the second with two parameters, one with a path.
C11_Witness ==
  /\ mapping # None
  /\ Len(Get(verdict).config_instances) = 2
  /\ Get(verdict).config_instances[1].id # Get(verdict).config_instances[2].id
  /\ Get(verdict).config_instances[1].parameters = <<>>
  /\ Len(Get(verdict).config_instances[2].parameters) = 2
  /\ Get(verdict).config_instances[2].parameters[1].path # <<>>
  /\ Len(Get(mapping).config_instances[2].parameters) = 2

\* C12 (as claimed): both credentials are loaded at process start and a missing
\* one stops the start, so a request that has been answered ran in a process
\* holding both, and none was answered 500 for a missing signing secret.
C12_CredentialsLoadedAtStartup ==
  \A r \in Requests :
    pc[r] = "done" =>
      /\ get_env_var(environ, "MIRU_API_KEY").ok
      /\ get_env_var(environ, "MIRU_WEBHOOK_SECRET").ok
      /\ raised[r] # Some(ValueError("MIRU_WEBHOOK_SECRET is not set"))
      /\ payload[r] = None => Get(response[r]).status = 400

\* The order of the steps of one request.
StepOrder ==
  <<"verify", "unwrap", "dispatch", "retrieve", "check", "validate", "submit", "effect",
    "respond">>

IsPrefix(s, t) == Len(s) <= Len(t) /\ SubSeq(t, 1, Len(s)) = s

\* C13: the steps of a request are completed in the order verify, unwrap,
\* dispatch, retrieve, (checks,) validate, submit, effect, respond; a retrieval
\* is made only after the signature of that request verified; a verdict is
\* submitted only after the retrieval and validate_deployment of that request
\* completed, for the retrieved deployment, and what is submitted is the
\* to_dict of the verdict validate_deployment returned.
C13_StepsInOrder ==
  \A r \in Requests :
    /\ IsPrefix(steps[r], StepOrder)
    /\ response[r] = Some(SuccessResponse) => steps[r] = StepOrder
    /\ CallsTo(r, "deployments.retrieve") # <<>> =>
         /\ outbound[r][1].op = "deployments.retrieve"
         /\ IsPrefix(<<"verify", "unwrap", "dispatch">>, steps[r])
         /\ SecretNow.ok /\ wh_verify(SecretNow.value, Get(request[r])).ok
         /\ payload[r] = Some(Get(request[r]).body)
         /\ outbound[r][1].deployment_id = Get(Get(event[r]).deployment_id)
    /\ CallsTo(r, "deployments.validate") # <<>> =>
         /\ Len(outbound[r]) = 2
         /\ outbound[r][1].op = "deployments.retrieve"
         /\ outbound[r][2].op = "deployments.validate"
         /\ IsPrefix(<<"verify", "unwrap", "dispatch", "retrieve", "check", "validate">>,
                     steps[r])
         /\ deployment[r] # None /\ result[r] # None
         /\ outbound[r][2].deployment_id = Get(deployment[r]).id
         /\ outbound[r][2].kwargs = to_dict(Get(result[r]))

\* C13 witness: a request went through every step, for a deployment of two
\* config instances.
C13_Witness ==
  \E r \in Requests :
    /\ steps[r] = StepOrder /\ pc[r] = "done"
    /\ Len(outbound[r]) = 2
    /\ Len(outbound[r][2].kwargs.config_instances) = 2

\* C14 (as claimed): for the effects none and void, a printed line of the
\* narrative carries the message the platform returned.
C14_NarrativeCarriesMessage ==
  \A r \in Requests :
    (/\ api_response[r] # None
     /\ pc[r] \in {"respond", "done"}
     /\ Get(api_response[r]).effect \in {"none", "void"}) =>
      \E i \in DOMAIN EffectOutput(r) :
        \E j \in DOMAIN EffectOutput(r)[i] :
          EffectOutput(r)[i][j] = Get(api_response[r]).message

\* Request r was handed the validly signed "deployment.validate" event for
\* dpl_1 and has ended.
SameEventDone(r) == request[r] = Some(Signed(ValidateEvent)) /\ pc[r] = "done"

Dispatched(r) == \E i \in DOMAIN steps[r] : steps[r][i] = "dispatch"

\* C15 (as claimed): every delivery of the same validly signed
\* "deployment.validate" event runs the handler and makes its own deployment
\* retrieval and its own verdict submission, so k deliveries make k of each.
C15_EveryDeliverySubmits ==
  \A r \in Requests :
    SameEventDone(r) =>
      /\ Dispatched(r)
      /\ Len(CallsTo(r, "deployments.retrieve")) = 1
      /\ Len(CallsTo(r, "deployments.validate")) = 1

\* C15 (amended): every delivery of the same validly signed event runs the
\* handler and makes its own retrieval of that deployment, whatever has been
\* delivered before; it makes its own verdict submission for that deployment
\* exactly when its retrieval returned a complete deployment.
C15_EveryDeliveryHandled ==
  \A r \in Requests :
    SameEventDone(r) =>
      /\ Dispatched(r)
      /\ Len(CallsTo(r, "deployments.retrieve")) = 1
      /\ CallsTo(r, "deployments.retrieve")[1].deployment_id = "dpl_1"
      /\ CompleteDeployment(r) =>
           /\ Len(CallsTo(r, "deployments.validate")) = 1
           /\ CallsTo(r, "deployments.validate")[1].deployment_id = "dpl_1"
      /\ ~CompleteDeployment(r) => CallsTo(r, "deployments.validate") = <<>>

\* C15 witness: the same event was delivered twice and both requests ended
\* with the success response, each after its own two calls.
C15_Witness ==
  \E r1, r2 \in Requests :
    /\ r1 # r2
    /\ SameEventDone(r1) /\ SameEventDone(r2)
    /\ response[r1] = Some(SuccessResponse) /\ response[r2] = Some(SuccessResponse)
    /\ Len(outbound[r1]) = 2 /\ Len(outbound[r2]) = 2

\* Everything request r holds.
RequestState(r) ==
  <<pc[r], request[r], payload[r], event[r], deployment[r], result[r], api_response[r],
    outbound[r], stdout[r], raised[r], response[r], steps[r]>>

\* What request r was given so far: the delivery and the platform's answers.
RequestInputs(r) ==
  <<request[r], deployment[r], api_response[r], {e \in raised[r] : e \in ApiErrors}>>

\* Requests at the same point with the same inputs hold the same state, whatever
\* the other requests did before or meanwhile.
SameInputsSameState ==
  \A r1, r2 \in Requests :
    (pc[r1] = pc[r2] /\ RequestInputs(r1) = RequestInputs(r2)) =>
      RequestState(r1) = RequestState(r2)

\* A step changes the state of at most one request, and none changes the
\* environment of a serving process.
OneRequestPerStep ==
  /\ \E r \in Requests : \A o \in Requests \ {r} : RequestState(o)' = RequestState(o)
  /\ process = "serving" => (process' = process /\ environ' = environ /\ dotenv' = dotenv)

\* C16: requests share no mutable state. In every interleaving a step of one
\* request leaves the state of every other request and the process environment
\* as they were, and the response, the outbound calls and the output of a
\* request depend on its own delivery and the platform's answers to it alone.
C16_RequestsIndependent == []SameInputsSameState /\ [][OneRequestPerStep]_vars

\* C16 witness: two requests for the same event were in flight at once; one
\* has sent its verdict and waits for the platform's answer, and the other has
\* meanwhile failed on its retrieved deployment.
C16_Witness ==
  \E r1, r2 \in Requests :
    /\ r1 # r2
    /\ request[r1] = request[r2]
    /\ pc[r1] = "done" /\ raised[r1] # None /\ deployment[r1] # None
    /\ pc[r2] = "submitting" /\ Len(outbound[r2]) = 2 /\ api_response[r2] = None

====
